---------------------------- MODULE Spec2Model ----------------------------
(***************************************************************************)
(* The write path of lsmdb: the WAL record codec (src/src/wal.rs), the     *)
(* MemTable (src/src/memtable.rs, src/src/entry.rs) and the DB             *)
(* orchestration (src/src/lib.rs), over a file system that separates the   *)
(* BufWriter's user-space buffer, the kernel's view of the log file and    *)
(* the part of the file that has reached stable storage.                   *)
(*                                                                         *)
(* Bytes are the integers 0..255 and byte strings are sequences of them.   *)
(* Offsets are 0-based as in the source; sequences are 1-based, so the     *)
(* byte at offset o of buf is buf[o + 1].  32-bit checksums are kept as 4  *)
(* little-endian bytes, which is how they travel in the record.            *)
(***************************************************************************)
EXTENDS Integers, Sequences, FiniteSets, TLC

(***************************************************************************)
(* Bounds of the model.                                                    *)
(***************************************************************************)
\* calls of DB::put and DB::delete in one behaviour (it also caps next_seq_no,
\* a u64 in the source)
MaxCalls == 2
\* faults of the environment in one behaviour: an I/O failure of flush or of
\* sync_all, or a crash
MaxFaults == 1

(***************************************************************************)
(* Inputs.  Keys and values are the bytes produced by Encode::encode; the  *)
(* empty key is a legal input of the API (tests::insert_empty_key).        *)
(***************************************************************************)
Keys == {<<>>, <<107>>, <<108>>}
Vals == {<<1>>, <<2, 3>>}

\* lib.rs: DEFAULT_MAX_RECORD_LEN = 1024 * 1000
DEFAULT_MAX_RECORD_LEN == 1024000
\* a small value of the public field DBConfig::max_record_len: the len field
\* of a record with a 1-byte key and a 1-byte value (21 + 1 + 1)
SmallMaxRecordLen == 23

Byte == 0..255

(***************************************************************************)
(* Byte-level helpers.                                                     *)
(***************************************************************************)
Take(s, n) == SubSeq(s, 1, n)
Drop(s, n) == SubSeq(s, n + 1, Len(s))
Min(a, b) == IF a < b THEN a ELSE b

\* u32::to_le_bytes / u64::to_le_bytes: the w little-endian bytes of n
RECURSIVE to_le_bytes(_, _)
to_le_bytes(n, w) ==
    IF w = 0 THEN <<>> ELSE <<n % 256>> \o to_le_bytes(n \div 256, w - 1)

\* exclusive or of two bytes, from the table of all of them
Bit(a, i) == (a \div i) % 2
XorBit(a, b, i) == (Bit(a, i) + Bit(b, i)) % 2
Xor4Table ==
    [a \in 0..15 |-> [b \in 0..15 |->
        XorBit(a, b, 1) + 2 * XorBit(a, b, 2) + 4 * XorBit(a, b, 4) + 8 * XorBit(a, b, 8)]]
Xor8Table ==
    [a \in Byte |-> [b \in Byte |->
        16 * Xor4Table[a \div 16][b \div 16] + Xor4Table[(a % 16)][(b % 16)]]]
Xor8(a, b) == Xor8Table[a][b]
\* exclusive or of two 32-bit words, each 4 little-endian bytes
Xor32(x, y) == <<Xor8(x[1], y[1]), Xor8(x[2], y[2]), Xor8(x[3], y[3]), Xor8(x[4], y[4])>>
\* logical shift right of a 32-bit word by one bit
Shr1(x) ==
    <<(x[1] \div 2) + 128 * (x[2] % 2), (x[2] \div 2) + 128 * (x[3] % 2),
      (x[3] \div 2) + 128 * (x[4] % 2), x[4] \div 2>>

(***************************************************************************)
(* crc32fast::hash: CRC-32 (IEEE 802.3), reflected polynomial 0xEDB88320,  *)
(* initial value and final exclusive or 0xFFFFFFFF, table driven.          *)
(***************************************************************************)
Crc32Poly == <<32, 131, 184, 237>>
RECURSIVE Crc32Bits(_, _)
Crc32Bits(c, n) ==
    IF n = 0 THEN c
    ELSE Crc32Bits(IF c[1] % 2 = 1 THEN Xor32(Shr1(c), Crc32Poly) ELSE Shr1(c), n - 1)
Crc32Table == [b \in Byte |-> Crc32Bits(<<b, 0, 0, 0>>, 8)]
\* one byte through the table-driven update: table[(c ^ b) & 0xFF] ^ (c >> 8)
Crc32Step(c, b) ==
    LET t == Crc32Table[Xor8(c[1], b)]
    IN  <<Xor8(t[1], c[2]), Xor8(t[2], c[3]), Xor8(t[3], c[4]), t[4]>>
\* the checksum register c after the bytes data[lo..hi], by halves so that the
\* evaluation nests to a depth of log2 of the length; the test on m only makes
\* TLC evaluate the first half before it starts on the second
RECURSIVE Crc32Update(_, _, _, _)
Crc32Update(c, data, lo, hi) ==
    IF lo > hi THEN c
    ELSE IF lo = hi THEN Crc32Step(c, data[lo])
    ELSE LET mid == (lo + hi) \div 2
             m == Crc32Update(c, data, lo, mid)
         IN  IF Len(m) # 4 THEN m ELSE Crc32Update(m, data, mid + 1, hi)
Crc32Of(data) ==
    Xor32(Crc32Update(<<255, 255, 255, 255>>, data, 1, Len(data)), <<255, 255, 255, 255>>)

(***************************************************************************)
(* wal.rs: Op, WALRecord and the record codec.                             *)
(*   [len:u32][op:u8][seq_no:u64][key_len:u32][val_len:u32][key][val][crc] *)
(***************************************************************************)
OpPut == 1
OpDelete == 2
SyncPolicy == {"Always", "Never"}

WALRecord_new(op, seq_no, key, val) ==
    [op |-> op, seq_no |-> seq_no, key |-> key, val |-> val]

\* the fixed part of a body: op, seq_no, key_len, val_len
PayloadOffset == 1 + 8 + 4 + 4

\* encode_record writing val_len before key_len
encode_body_lengths_swapped(rec) ==
    <<rec.op>> \o to_le_bytes(rec.seq_no, 8) \o to_le_bytes(Len(rec.val), 4)
        \o to_le_bytes(Len(rec.key), 4) \o rec.key \o rec.val

encode_body(rec) ==
    <<rec.op>> \o to_le_bytes(rec.seq_no, 8) \o to_le_bytes(Len(rec.key), 4)
        \o to_le_bytes(Len(rec.val), 4) \o rec.key \o rec.val

\* crc32fast::hash as the codec calls it.  The checksums of the bodies of the
\* records that the engine writes are kept in a table, so that they are
\* computed once; every other input is computed by Crc32Of.
Crc32Memo ==
    [body \in {encode_body(WALRecord_new(OpPut, seq_no, key, val)) :
                   seq_no \in 0..MaxCalls, key \in Keys, val \in Vals}
        |-> Crc32Of(body)]
crc32_hash(data) ==
    IF data \in DOMAIN Crc32Memo THEN Crc32Memo[data] ELSE Crc32Of(data)

encode_record(rec) ==
    LET body == encode_body(rec)
        crc == crc32_hash(body)
        len == Len(body) + 4
    IN  to_le_bytes(len, 4) \o body \o crc

\* the length of encode_record(rec)
encoded_len(rec) == 4 + PayloadOffset + Len(rec.key) + Len(rec.val) + 4

\* read_u32_le / read_u64_le of the slice input: None (<<>>) when it is short
read_u32_le(input) ==
    IF Len(input) < 4 THEN <<>>
    ELSE <<input[1] + 256 * input[2] + 65536 * input[3] + 16777216 * input[4]>>
\* the value of the first w little-endian bytes (zero high bytes are skipped)
RECURSIVE LeValue(_, _)
LeValue(input, w) ==
    IF w = 0 THEN 0
    ELSE LET hi == LeValue(Drop(input, 1), w - 1)
         IN  IF hi = 0 THEN input[1] ELSE input[1] + 256 * hi
read_u64_le(input) ==
    IF Len(input) < 8 THEN <<>> ELSE <<LeValue(input, 8)>>

\* Op::try_from
Op_try_from(b) == IF b = 1 THEN <<OpPut>> ELSE IF b = 2 THEN <<OpDelete>> ELSE <<>>

CleanEOF == [kind |-> "CleanEOF"]
Corruption(what) == [kind |-> "Corruption", what |-> what]
Success(rec, next) == [kind |-> "Ok", rec |-> rec, next |-> next]

\* decode_body without Op::try_from: the op byte is taken as it is
decode_body_any_op(body, end) ==
    IF Len(body) < PayloadOffset THEN Corruption("body too short")
    ELSE
    LET op == body[1]
        seq_no == read_u64_le(Drop(body, 1))
        key_len == read_u32_le(Drop(body, 1 + 8))
        val_len == read_u32_le(Drop(body, 1 + 8 + 4))
    IN  IF seq_no = <<>> \/ key_len = <<>> \/ val_len = <<>> THEN Corruption("bad seq")
        ELSE IF key_len[1] = 0 THEN Corruption("key_len is 0")
        ELSE IF PayloadOffset + key_len[1] + val_len[1] # Len(body)
             THEN Corruption("length mismatch")
        ELSE Success(WALRecord_new(op, seq_no[1],
                                   SubSeq(body, PayloadOffset + 1, PayloadOffset + key_len[1]),
                                   SubSeq(body, PayloadOffset + key_len[1] + 1, Len(body))),
                     end)

\* the part of decode_record that follows the checksum comparison
decode_body(body, end) ==
    IF Len(body) < PayloadOffset THEN Corruption("body too short")
    ELSE
    LET op == body[1]
        seq_no == read_u64_le(Drop(body, 1))
        key_len == read_u32_le(Drop(body, 1 + 8))
        val_len == read_u32_le(Drop(body, 1 + 8 + 4))
    IN  IF seq_no = <<>> \/ key_len = <<>> \/ val_len = <<>> THEN Corruption("bad seq")
        ELSE IF key_len[1] = 0 THEN Corruption("key_len is 0")
        ELSE IF PayloadOffset + key_len[1] + val_len[1] # Len(body)
             THEN Corruption("length mismatch")
        ELSE IF Op_try_from(op) = <<>> THEN Corruption("invalid op code found")
        ELSE Success(WALRecord_new(Op_try_from(op)[1], seq_no[1],
                                   SubSeq(body, PayloadOffset + 1, PayloadOffset + key_len[1]),
                                   SubSeq(body, PayloadOffset + key_len[1] + 1, Len(body))),
                     end)

\* decode_record reporting a record that is cut short as Corruption
decode_record_strict_tail(buf, offset, max_record_len) ==
    LET remaining == IF Len(buf) > offset THEN Len(buf) - offset ELSE 0
    IN  IF remaining < 4 THEN CleanEOF
        ELSE
        LET len == read_u32_le(Drop(buf, offset))[1]
            total == 4 + len
            start == offset + 4
            end == offset + total
        IN  IF len = 0 \/ len > max_record_len THEN Corruption("invalid len")
            ELSE IF remaining < total THEN Corruption("record too short")
            ELSE
            LET rest_of_buf == SubSeq(buf, start + 1, end)
                body_len == Len(rest_of_buf) - 4
                body == Take(rest_of_buf, body_len)
                crc_expected == Drop(rest_of_buf, body_len)
            IN  IF crc32_hash(body) # crc_expected THEN Corruption("crc mismatch")
                ELSE decode_body(body, end)

\* decode_record without the comparison of the checksums
decode_record_without_crc(buf, offset, max_record_len) ==
    LET remaining == IF Len(buf) > offset THEN Len(buf) - offset ELSE 0
    IN  IF remaining < 4 THEN CleanEOF
        ELSE
        LET len == read_u32_le(Drop(buf, offset))[1]
            total == 4 + len
            start == offset + 4
            end == offset + total
        IN  IF len = 0 \/ len > max_record_len THEN Corruption("invalid len")
            ELSE IF remaining < total THEN CleanEOF
            ELSE
            LET rest_of_buf == SubSeq(buf, start + 1, end)
            IN  IF Len(rest_of_buf) < 4 THEN Corruption("record too short")
                ELSE decode_body(Take(rest_of_buf, Len(rest_of_buf) - 4), end)

\* decode_record comparing the bytes that remain with the record's size before
\* it validates the len field
decode_record_remaining_first(buf, offset, max_record_len) ==
    LET remaining == IF Len(buf) > offset THEN Len(buf) - offset ELSE 0
    IN  IF remaining < 4 THEN CleanEOF
        ELSE
        LET len == read_u32_le(Drop(buf, offset))[1]
            total == 4 + len
            start == offset + 4
            end == offset + total
        IN  IF remaining < total THEN CleanEOF
            ELSE IF len = 0 \/ len > max_record_len THEN Corruption("invalid len")
            ELSE
            LET rest_of_buf == SubSeq(buf, start + 1, end)
            IN  IF Len(rest_of_buf) < 4 THEN Corruption("record too short")
                ELSE
                LET body_len == Len(rest_of_buf) - 4
                    body == Take(rest_of_buf, body_len)
                    crc_expected == Drop(rest_of_buf, body_len)
                IN  IF crc32_hash(body) # crc_expected THEN Corruption("crc mismatch")
                    ELSE decode_body(body, end)

decode_record(buf, offset, max_record_len) ==
    LET remaining == IF Len(buf) > offset THEN Len(buf) - offset ELSE 0
    IN  IF remaining < 4 THEN CleanEOF
        ELSE
        LET len == read_u32_le(Drop(buf, offset))[1]
            total == 4 + len
            start == offset + 4
            end == offset + total
        IN  IF len = 0 \/ len > max_record_len THEN Corruption("invalid len")
            ELSE IF remaining < total THEN CleanEOF
            ELSE
            LET rest_of_buf == SubSeq(buf, start + 1, end)
            IN  IF Len(rest_of_buf) < 4 THEN Corruption("record too short")
                ELSE
                LET body_len == Len(rest_of_buf) - 4
                    body == Take(rest_of_buf, body_len)
                    crc_expected == Drop(rest_of_buf, body_len)
                IN  IF crc32_hash(body) # crc_expected THEN Corruption("crc mismatch")
                    ELSE decode_body(body, end)

(***************************************************************************)
(* entry.rs and memtable.rs.  A MemTable (BTreeMap<Vec<u8>, Entry>) is a   *)
(* function from the keys it holds to their Entry.                         *)
(***************************************************************************)
Value(seq_no, val) == [tag |-> "Value", seq_no |-> seq_no, val |-> val]
Tombstone(seq_no) == [tag |-> "Tombstone", seq_no |-> seq_no]
Entry_seq_no(e) == e.seq_no

MemTable_new == <<>>
\* BTreeMap::insert
MemTable_insert(mem, key, e) ==
    [x \in DOMAIN mem \cup {key} |-> IF x = key THEN e ELSE mem[x]]
\* BTreeMap::entry(key).or_insert(e)
MemTable_or_insert(mem, key, e) ==
    IF key \in DOMAIN mem THEN mem ELSE MemTable_insert(mem, key, e)

\* memtable::put that overwrites whatever the key holds
memtable_put_last_call_wins(mem, key, val, seq_no) ==
    IF Len(key) = 0 THEN [res |-> "Codec", mem |-> mem]
    ELSE [res |-> "Ok", mem |-> MemTable_insert(mem, key, Value(seq_no, val))]

\* memtable::put that keeps whatever Entry the key already holds
memtable_put_insert_if_absent(mem, key, val, seq_no) ==
    IF Len(key) = 0 THEN [res |-> "Codec", mem |-> mem]
    ELSE [res |-> "Ok", mem |-> MemTable_or_insert(mem, key, Value(seq_no, val))]

\* memtable::put with the comparison of the sequence numbers reversed
memtable_put_lowest_wins(mem, key, val, seq_no) ==
    IF Len(key) = 0 THEN [res |-> "Codec", mem |-> mem]
    ELSE IF key \in DOMAIN mem
         THEN IF Entry_seq_no(mem[key]) > seq_no
              THEN [res |-> "Ok", mem |-> MemTable_insert(mem, key, Value(seq_no, val))]
              ELSE [res |-> "Ok", mem |-> mem]
         ELSE [res |-> "Ok", mem |-> MemTable_insert(mem, key, Value(seq_no, val))]

\* memtable::put: [res, mem]
memtable_put(mem, key, val, seq_no) ==
    IF Len(key) = 0 THEN [res |-> "Codec", mem |-> mem]
    ELSE IF key \in DOMAIN mem
         THEN IF Entry_seq_no(mem[key]) < seq_no
              THEN [res |-> "Ok", mem |-> MemTable_insert(mem, key, Value(seq_no, val))]
              ELSE [res |-> "Ok", mem |-> mem]
         ELSE [res |-> "Ok", mem |-> MemTable_insert(mem, key, Value(seq_no, val))]

\* DB::get_raw on a MemTable: Some(val) is <<val>>, None is <<>>
get_raw(mem, key) ==
    IF key \in DOMAIN mem
    THEN IF mem[key].tag = "Value" THEN <<mem[key].val>> ELSE <<>>
    ELSE <<>>

(***************************************************************************)
(* WAL::replay_into.  The source of this method is not part of the files   *)
(* at hand (lib.rs calls it); it is written from the design document: the  *)
(* records are decoded at increasing offsets, a Put is applied as a        *)
(* MemTable put and a Delete as a tombstone insert-if-absent, both with    *)
(* the record's own sequence number; Clean-End-Of-Stream ends the replay   *)
(* with success and Corruption aborts it.  The result also lists the       *)
(* offsets and records that were applied.                                  *)
(***************************************************************************)
replay_apply(mem, rec) ==
    IF rec.op = OpPut THEN memtable_put(mem, rec.key, rec.val, rec.seq_no)
    ELSE [res |-> "Ok", mem |-> MemTable_or_insert(mem, rec.key, Tombstone(rec.seq_no))]

RECURSIVE replay_from(_, _, _, _, _)
replay_from(buf, offset, max_record_len, mem, applied) ==
    LET d == decode_record(buf, offset, max_record_len)
    IN  IF d.kind = "CleanEOF"
        THEN [res |-> "Ok", mem |-> mem, applied |-> applied, offset |-> offset]
        ELSE IF d.kind = "Corruption"
        THEN [res |-> "Corruption", mem |-> mem, applied |-> applied, offset |-> offset]
        ELSE LET a == replay_apply(mem, d.rec)
             IN  IF a.res # "Ok"
                 THEN [res |-> a.res, mem |-> mem, applied |-> applied, offset |-> offset]
                 ELSE replay_from(buf, d.next, max_record_len, a.mem,
                                  Append(applied, [off |-> offset, rec |-> d.rec]))

replay_into(buf, mem, max_record_len) == replay_from(buf, 0, max_record_len, mem, <<>>)

(***************************************************************************)
(* The state.                                                              *)
(*   db_state      "Closed" (no DB value exists) or "Ready"                *)
(*   mem_table, next_seq_no, opts    fields of DB                          *)
(*   wal_buf       the bytes held by the BufWriter of WAL.buf              *)
(*   file          the log file as the kernel shows it to a reader         *)
(*   synced        length of the prefix of file that is on stable storage  *)
(* and, to state properties of calls and of the log's history,             *)
(*   wal_hist      the records handed to WAL::append whose first byte is   *)
(*                 still in file \o wal_buf, in append order: the record,  *)
(*                 the offset of its first byte, what append returned      *)
(*                 ("Ok", "Io", or "Crash" when the process died in it),   *)
(*                 the sync policy, and whether a crash followed           *)
(*   last          the last call: its name, arguments and result           *)
(*   accepted      calls of put/delete that returned Ok since DB::new      *)
(*   view_at_drop  what get_raw returned for each key when the DB was last *)
(*                 dropped                                                 *)
(*   calls, faults    counters for the bounds                              *)
(***************************************************************************)
VARIABLES db_state, mem_table, next_seq_no, opts, wal_buf, file, synced,
          wal_hist, last, accepted, view_at_drop, calls, faults

vars == <<db_state, mem_table, next_seq_no, opts, wal_buf, file, synced,
          wal_hist, last, accepted, view_at_drop, calls, faults>>

\* lib.rs, DBConfig: the fields the write path reads.  The private field
\* disable_wal_memtable_replay_on_load is false in Default and in every
\* configuration the crate builds.
disable_wal_memtable_replay_on_load == FALSE
DBConfigs ==
    [wal_sync_policy : SyncPolicy, max_record_len : {SmallMaxRecordLen, DEFAULT_MAX_RECORD_LEN}]

Call(op, key, val, res, out) ==
    [op |-> op, key |-> key, val |-> val, res |-> res, out |-> out]

\* the bytes a reader of the log would meet if every buffered byte reached it
Stream == file \o wal_buf
\* the entries of the history whose first byte lies below offset n
Trim(hist, n) == SelectSeq(hist, LAMBDA h : h.off < n)
\* the history after a crash
Crashed(hist) == [i \in DOMAIN hist |-> [hist[i] EXCEPT !.crash = TRUE]]
\* get_raw for every key
View(mem) == [k \in Keys |-> get_raw(mem, k)]

Init ==
    /\ db_state = "Closed"
    /\ mem_table = MemTable_new
    /\ next_seq_no = 0
    /\ opts \in DBConfigs
    /\ wal_buf = <<>>
    /\ file = <<>>
    /\ synced = 0
    /\ wal_hist = <<>>
    /\ last = Call("init", <<>>, <<>>, "Ok", <<>>)
    /\ accepted = 0
    /\ view_at_drop = View(MemTable_new)
    /\ calls = 0
    /\ faults = 0

\* DB::new without the `?` after replay_into: the DB comes up on what the
\* replay had applied before it failed
DB_new_ignoring_replay_error ==
    /\ db_state = "Closed"
    /\ LET r == replay_into(file, MemTable_new, opts.max_record_len)
       IN  /\ db_state' = "Ready"
           /\ mem_table' = r.mem
           /\ next_seq_no' = 0
           /\ last' = Call("new", <<>>, <<>>, "Ok", <<>>)
    /\ wal_buf' = <<>>
    /\ accepted' = 0
    /\ UNCHANGED <<opts, file, synced, wal_hist, view_at_drop, calls, faults>>

(***************************************************************************)
(* DB::new: File::open, WAL::new (append mode, a fresh BufWriter) and the  *)
(* replay of the whole file into a new MemTable.  A replay error leaves no *)
(* DB.                                                                     *)
(***************************************************************************)
DB_new ==
    /\ db_state = "Closed"
    /\ LET r == IF ~disable_wal_memtable_replay_on_load
                THEN replay_into(file, MemTable_new, opts.max_record_len)
                ELSE [res |-> "Ok", mem |-> MemTable_new]
       IN  IF r.res = "Ok"
           THEN /\ db_state' = "Ready"
                /\ mem_table' = r.mem
                /\ next_seq_no' = 0
                /\ last' = Call("new", <<>>, <<>>, "Ok", <<>>)
           ELSE /\ db_state' = "Closed"
                /\ mem_table' = MemTable_new
                /\ next_seq_no' = 0
                /\ last' = Call("new", <<>>, <<>>, r.res, <<>>)
    /\ wal_buf' = <<>>
    /\ accepted' = 0
    /\ UNCHANGED <<opts, file, synced, wal_hist, view_at_drop, calls, faults>>

(***************************************************************************)
(* WAL::append(rec).  write_all only copies into the BufWriter (the        *)
(* records of this model are far smaller than its capacity).  Under the    *)
(* "always" policy the I/O that follows has one of the outcomes            *)
(*   [kind |-> "ok"]                   flush and sync_all succeed          *)
(*   [kind |-> "flush", written |-> j] flush fails after j of the buffered *)
(*                                     bytes reached the file; the rest    *)
(*                                     stays in the buffer                 *)
(*   [kind |-> "sync"]                 flush succeeds and sync_all fails   *)
(* WAL_append is the set of results the call can have: the value returned  *)
(* and the new buffer, file and synced length.                             *)
(***************************************************************************)
IoOk == [kind |-> "ok", written |-> 0]
IoOutcomes(n) ==
    {IoOk} \cup
    (IF opts.wal_sync_policy = "Always" /\ faults < MaxFaults
     THEN {[kind |-> "sync", written |-> 0], [kind |-> "flush", written |-> 0],
           [kind |-> "flush", written |-> n \div 2]}
     ELSE {})

WAL_append_io(buffered, io) ==
    IF opts.wal_sync_policy = "Always"
    THEN IF io.kind = "flush"
         THEN [res |-> "Io", io |-> io, buf |-> Drop(buffered, io.written),
               file |-> file \o Take(buffered, io.written), synced |-> synced]
         ELSE IF io.kind = "sync"
         THEN [res |-> "Io", io |-> io, buf |-> <<>>, file |-> file \o buffered,
               synced |-> synced]
         ELSE [res |-> "Ok", io |-> io, buf |-> <<>>, file |-> file \o buffered,
               synced |-> Len(file) + Len(buffered)]
    ELSE [res |-> "Ok", io |-> io, buf |-> buffered, file |-> file, synced |-> synced]

WAL_append(rec) ==
    LET encode == encode_record(rec)
        buffered == wal_buf \o encode
    IN  {WAL_append_io(buffered, io) : io \in IoOutcomes(Len(buffered))}

HistEntry(rec, app) ==
    [rec |-> rec, off |-> Len(Stream), app |-> app, sync |-> opts.wal_sync_policy,
     crash |-> FALSE]

\* DB::put without the `?` after wal.append: the MemTable is written and the
\* counter advanced although the append failed
DB_put_ignoring_append_error(key, val) ==
    /\ db_state = "Ready"
    /\ calls < MaxCalls
    /\ calls' = calls + 1
    /\ LET wal_record == WALRecord_new(OpPut, next_seq_no, key, val)
       IN  \E a \in WAL_append(wal_record) :
           LET m == memtable_put(mem_table, key, val, next_seq_no)
           IN  /\ wal_buf' = a.buf
               /\ file' = a.file
               /\ synced' = a.synced
               /\ wal_hist' = Append(wal_hist, HistEntry(wal_record, a.res))
               /\ faults' = IF a.io.kind = "ok" THEN faults ELSE faults + 1
               /\ IF m.res # "Ok"
                  THEN /\ last' = Call("put", key, val, m.res, <<>>)
                       /\ UNCHANGED <<mem_table, next_seq_no, accepted>>
                  ELSE /\ mem_table' = m.mem
                       /\ next_seq_no' = next_seq_no + 1
                       /\ accepted' = accepted + 1
                       /\ last' = Call("put", key, val, a.res, <<>>)
    /\ UNCHANGED <<db_state, opts, view_at_drop>>

(***************************************************************************)
(* DB::put(key, val)                                                       *)
(***************************************************************************)
DB_put(key, val) ==
    /\ db_state = "Ready"
    /\ calls < MaxCalls
    /\ calls' = calls + 1
    /\ LET wal_record == WALRecord_new(OpPut, next_seq_no, key, val)
       IN  \E a \in WAL_append(wal_record) :
           LET m == memtable_put(mem_table, key, val, next_seq_no)
           IN  /\ wal_buf' = a.buf
               /\ file' = a.file
               /\ synced' = a.synced
               /\ wal_hist' = Append(wal_hist, HistEntry(wal_record, a.res))
               /\ faults' = IF a.io.kind = "ok" THEN faults ELSE faults + 1
               /\ IF a.res # "Ok"
                  THEN /\ last' = Call("put", key, val, a.res, <<>>)
                       /\ UNCHANGED <<mem_table, next_seq_no, accepted>>
                  ELSE IF m.res # "Ok"
                  THEN /\ last' = Call("put", key, val, m.res, <<>>)
                       /\ UNCHANGED <<mem_table, next_seq_no, accepted>>
                  ELSE /\ mem_table' = m.mem
                       /\ next_seq_no' = next_seq_no + 1
                       /\ accepted' = accepted + 1
                       /\ last' = Call("put", key, val, "Ok", <<>>)
    /\ UNCHANGED <<db_state, opts, view_at_drop>>

\* DB::delete writing the tombstone over whatever the key holds
DB_delete_overwriting(key) ==
    /\ db_state = "Ready"
    /\ calls < MaxCalls
    /\ calls' = calls + 1
    /\ IF Len(key) = 0
       THEN /\ last' = Call("delete", key, <<>>, "Codec", <<>>)
            /\ UNCHANGED <<mem_table, next_seq_no, accepted>>
       ELSE /\ mem_table' = MemTable_insert(mem_table, key, Tombstone(next_seq_no))
            /\ next_seq_no' = next_seq_no + 1
            /\ accepted' = accepted + 1
            /\ last' = Call("delete", key, <<>>, "Ok", <<>>)
    /\ UNCHANGED <<db_state, opts, wal_buf, file, synced, wal_hist, view_at_drop, faults>>

(***************************************************************************)
(* DB::delete(key)                                                         *)
(***************************************************************************)
DB_delete(key) ==
    /\ db_state = "Ready"
    /\ calls < MaxCalls
    /\ calls' = calls + 1
    /\ IF Len(key) = 0
       THEN /\ last' = Call("delete", key, <<>>, "Codec", <<>>)
            /\ UNCHANGED <<mem_table, next_seq_no, accepted>>
       ELSE /\ mem_table' = MemTable_or_insert(mem_table, key, Tombstone(next_seq_no))
            /\ next_seq_no' = next_seq_no + 1
            /\ accepted' = accepted + 1
            /\ last' = Call("delete", key, <<>>, "Ok", <<>>)
    /\ UNCHANGED <<db_state, opts, wal_buf, file, synced, wal_hist, view_at_drop, faults>>

(***************************************************************************)
(* DB::get_raw(key): a read; what it returns is get_raw(mem_table, key).   *)
(***************************************************************************)
DB_get_raw(key) ==
    /\ db_state = "Ready"
    /\ get_raw(mem_table, key) \in {<<>>} \cup {<<v>> : v \in Vals}
    /\ UNCHANGED vars

(***************************************************************************)
(* drop(db): the BufWriter's drop writes the buffer to the file and        *)
(* ignores an error, in which case the bytes not yet written are lost;     *)
(* nothing is synced.                                                      *)
(***************************************************************************)
DB_drop ==
    /\ db_state = "Ready"
    /\ \E written \in {Len(wal_buf)} \cup
                      (IF faults < MaxFaults /\ Len(wal_buf) > 0 THEN {0} ELSE {}) :
        /\ file' = file \o Take(wal_buf, written)
        /\ wal_hist' = Trim(wal_hist, Len(file) + written)
        /\ faults' = IF written = Len(wal_buf) THEN faults ELSE faults + 1
    /\ db_state' = "Closed"
    /\ mem_table' = MemTable_new
    /\ next_seq_no' = 0
    /\ wal_buf' = <<>>
    /\ accepted' = 0
    /\ view_at_drop' = View(mem_table)
    /\ last' = Call("drop", <<>>, <<>>, "Ok", <<>>)
    /\ UNCHANGED <<opts, synced, calls>>

(***************************************************************************)
(* A crash.  The process dies (the buffer is lost) and, on a power loss,   *)
(* so are the bytes of the file that were never synced: the file keeps a   *)
(* prefix that holds at least the synced part.  CrashCuts are the lengths  *)
(* of the prefix that the model tries.                                     *)
(***************************************************************************)
CrashCuts(lo, hi) == {c \in {lo, hi, hi - 15, hi - 25} : lo <= c /\ c <= hi}

CrashTo(bytes, hist) ==
    /\ faults < MaxFaults
    /\ faults' = faults + 1
    /\ \E c \in CrashCuts(synced, Len(bytes)) :
        /\ file' = Take(bytes, c)
        /\ wal_hist' = Crashed(Trim(hist, c))
    /\ db_state' = "Closed"
    /\ mem_table' = MemTable_new
    /\ next_seq_no' = 0
    /\ wal_buf' = <<>>
    /\ accepted' = 0
    /\ last' = Call("crash", <<>>, <<>>, "Ok", <<>>)
    /\ UNCHANGED <<opts, synced, view_at_drop>>

\* between two calls, or with no DB open while unsynced bytes remain
Crash ==
    /\ db_state = "Ready" \/ synced < Len(file)
    /\ CrashTo(file, wal_hist)
    /\ UNCHANGED calls

\* inside WAL::append called by DB::put(key, val): under the "always" policy
\* any part of the buffer and of the record may have reached the file
CrashInPut(key, val) ==
    /\ db_state = "Ready"
    /\ calls < MaxCalls
    /\ calls' = calls + 1
    /\ opts.wal_sync_policy = "Always"
    /\ LET wal_record == WALRecord_new(OpPut, next_seq_no, key, val)
       IN  CrashTo(Stream \o encode_record(wal_record),
                   Append(wal_hist, HistEntry(wal_record, "Crash")))

Next ==
    \/ DB_new
    \/ \E key \in Keys, val \in Vals : DB_put(key, val)
    \/ \E key \in Keys : DB_delete(key)
    \/ \E key \in Keys : DB_get_raw(key)
    \/ DB_drop
    \/ Crash
    \/ \E key \in Keys, val \in Vals : CrashInPut(key, val)

Spec == Init /\ [][Next]_vars

(***************************************************************************)
(* What the properties below read.                                         *)
(***************************************************************************)
\* this step is a call of DB::put or DB::delete
IsCall == db_state = "Ready" /\ last'.op \in {"put", "delete"} /\ calls' = calls + 1
\* the record DB::put handed to WAL::append in this step
Appended == wal_hist'[Len(wal_hist')]
\* what a replay of the file as it is now applies: the offsets and records
Replayed == replay_into(file, MemTable_new, opts.max_record_len).applied
IsReplayed(h) == \E j \in DOMAIN Replayed : Replayed[j].off = h.off /\ Replayed[j].rec = h.rec
\* where the bytes of the i-th entry of the history end in the stream
HistEnd(i) == IF i < Len(wal_hist) THEN wal_hist[i + 1].off ELSE Len(Stream)
\* the whole frame of the i-th entry of the history is in the file
InFile(i) ==
    LET h == wal_hist[i]
        end == h.off + encoded_len(h.rec)
    IN  end <= HistEnd(i) /\ end <= Len(file)
\* every call since the log was created was a successful put of a non-empty
\* key, and nothing failed or crashed
OnlySuccessfulPuts ==
    /\ faults = 0
    /\ calls = Len(wal_hist)
    /\ \A i \in DOMAIN wal_hist : wal_hist[i].app = "Ok" /\ Len(wal_hist[i].rec.key) > 0

\* The history is the log: the bytes of the stream from an entry's offset to
\* the next entry's are the encoding of its record, or a prefix of it where a
\* crash or a lost buffer cut it short.
HistoryIsLog ==
    \A i \in DOMAIN wal_hist :
        LET h == wal_hist[i]
            enc == encode_record(h.rec)
            n == HistEnd(i) - h.off
        IN  /\ 0 < n /\ n <= Len(enc)
            /\ Take(enc, n) = Take(Drop(Stream, h.off), n)
            /\ (h.app = "Ok" /\ h.sync = "Always") => h.off + Len(enc) <= synced

(***************************************************************************)
(* C1  Write the WAL before applying: every entry of the MemTable, a value *)
(* written by put or a tombstone written by delete, has a record with its  *)
(* key and sequence number that was appended to the log.                   *)
(***************************************************************************)
C1_WalBeforeApply ==
    db_state = "Ready" =>
        \A k \in DOMAIN mem_table :
            \E i \in DOMAIN wal_hist :
                /\ wal_hist[i].rec.key = k
                /\ wal_hist[i].rec.seq_no = Entry_seq_no(mem_table[k])

(***************************************************************************)
(* C2  Under the "always" policy a record whose append (and put) returned  *)
(* success survives a later crash: the reopening that follows the crash    *)
(* succeeds and replays that record.                                       *)
(***************************************************************************)
C2_AckedRecordReplayedAfterCrash ==
    last.op = "new" =>
        \A i \in DOMAIN wal_hist :
            LET h == wal_hist[i]
            IN  (h.sync = "Always" /\ h.app = "Ok" /\ Len(h.rec.key) > 0 /\ h.crash)
                    => (last.res = "Ok" /\ IsReplayed(h))

(***************************************************************************)
(* C3  After any sequence of successful puts of non-empty keys, closing    *)
(* the engine and reopening it on the same log succeeds, and get returns   *)
(* for every key what it returned before the close.                        *)
(***************************************************************************)
C3_ReopenRestoresGets ==
    (last.op = "new" /\ OnlySuccessfulPuts /\ wal_hist # <<>>) =>
        (db_state = "Ready" /\ View(mem_table) = view_at_drop)

(***************************************************************************)
(* Sequencing within one DB, as far as the counter goes: the counter is    *)
(* the number of calls accepted since the DB was opened, an accepted call  *)
(* is given the counter's value and advances it by one, a rejected or      *)
(* failed call leaves it alone, and an accepted put has appended its       *)
(* record with that sequence number.                                       *)
(***************************************************************************)
SequencingStep ==
    IsCall =>
        IF last'.res = "Ok"
        THEN /\ next_seq_no' = next_seq_no + 1
             /\ accepted' = accepted + 1
             /\ last'.op = "put" =>
                    /\ Appended.app = "Ok"
                    /\ Appended.rec.seq_no = next_seq_no
                    /\ mem_table' # mem_table =>
                           mem_table'[last'.key] = Value(next_seq_no, last'.val)
             /\ last'.op = "delete" =>
                    /\ mem_table' # mem_table =>
                           mem_table'[last'.key] = Tombstone(next_seq_no)
        ELSE next_seq_no' = next_seq_no /\ accepted' = accepted

CounterCountsAccepted ==
    [](db_state = "Ready" => next_seq_no = accepted) /\ [][SequencingStep]_vars

(***************************************************************************)
(* C4  Monotonic sequencing within one DB: the k-th accepted call is given *)
(* the counter's value at open plus k; the counter advances by one per     *)
(* accepted put or delete, and only after the append of that call's record *)
(* succeeded; a rejected or failed call leaves it alone.                   *)
(***************************************************************************)
C4_CallStep ==
    IsCall =>
        IF last'.res = "Ok"
        THEN /\ next_seq_no' = next_seq_no + 1
             /\ next_seq_no = accepted
             /\ Len(wal_hist') = Len(wal_hist) + 1
             /\ Appended.app = "Ok"
             /\ Appended.rec.key = last'.key
             /\ Appended.rec.seq_no = next_seq_no
        ELSE next_seq_no' = next_seq_no

C4_MonotonicSequencing == [][C4_CallStep]_vars

(***************************************************************************)
(* C5  Sequence numbers across a reopening: after DB::new has replayed a   *)
(* log, the counter is above the sequence number of every record of it.    *)
(***************************************************************************)
C5_CounterAboveLog ==
    (last.op = "new" /\ last.res = "Ok") =>
        \A j \in DOMAIN Replayed : Replayed[j].rec.seq_no < next_seq_no

(***************************************************************************)
(* C6  Read your writes: once put(k, v) has returned Ok, get_raw(k) is v   *)
(* until the next write of k, also in a DB opened by a replay.             *)
(***************************************************************************)
C6_ReadYourWrites ==
    (last.op = "put" /\ last.res = "Ok") =>
        /\ last.key \in DOMAIN mem_table
        /\ get_raw(mem_table, last.key) = <<last.val>>

(***************************************************************************)
(* C7  A put whose append fails returns the Io error and changes neither   *)
(* next_seq_no nor the MemTable.                                           *)
(***************************************************************************)
C7_PutStep ==
    (IsCall /\ last'.op = "put" /\ Appended.app # "Ok") =>
        /\ last'.res = "Io"
        /\ next_seq_no' = next_seq_no
        /\ mem_table' = mem_table

C7_FailedAppendLeavesStateAlone == [][C7_PutStep]_vars

\* a put has failed in a DB that holds an entry
C7_Witness ==
    /\ last.op = "put"
    /\ last.res = "Io"
    /\ wal_hist[Len(wal_hist)].app = "Io"
    /\ next_seq_no = 1
    /\ DOMAIN mem_table # {}

(***************************************************************************)
(* C8  A record whose append failed is never met as a valid record by a    *)
(* later replay.                                                           *)
(***************************************************************************)
C8_FailedAppendNeverReplayed ==
    last.op = "new" =>
        \A i \in DOMAIN wal_hist : wal_hist[i].app = "Io" => ~IsReplayed(wal_hist[i])

(***************************************************************************)
(* C9  put and delete of the empty key both return the Codec error and     *)
(* leave the counter and the MemTable unchanged.                           *)
(***************************************************************************)
C9_CallStep ==
    (IsCall /\ last'.key = <<>>) =>
        /\ last'.res = "Codec"
        /\ next_seq_no' = next_seq_no
        /\ mem_table' = mem_table

C9_EmptyKeyIsCodecError == [][C9_CallStep]_vars

(***************************************************************************)
(* C10  No record in the log file has a key of length 0: the key_len field *)
(* of every record that lies in the file is positive.                      *)
(***************************************************************************)
C10_NoEmptyKeyInLog ==
    \A i \in DOMAIN wal_hist :
        InFile(i) =>
            read_u32_le(Drop(file, wal_hist[i].off + 4 + 1 + 8)) # <<0>>

(***************************************************************************)
(* C11  Corruption is fatal to startup: when the replay of the log fails,  *)
(* DB::new returns that error and no DB exists; none comes up holding the  *)
(* records that preceded the corrupt one.                                  *)
(***************************************************************************)
C11_CorruptionIsFatal ==
    LET r == replay_into(file, MemTable_new, opts.max_record_len)
    IN  (last.op = "new" /\ r.res # "Ok") =>
            /\ last.res = "Corruption"
            /\ db_state = "Closed"
            /\ mem_table = MemTable_new

\* DB::new has failed on a log whose first records were valid
C11_Witness ==
    /\ last.op = "new"
    /\ last.res = "Corruption"
    /\ db_state = "Closed"
    /\ Replayed # <<>>

(***************************************************************************)
(* The codec and the replay on their own, as wal.rs's test::test_enc_dec   *)
(* drives them: a buffer is built by encode_record from records of         *)
(* CodecRecords; then one record of it is decoded, or the buffer is cut    *)
(* and replayed, or one bit of a record's body is flipped and the record   *)
(* decoded.  The buffer is file, its records are wal_hist, the result of   *)
(* the last operation is last (and mem_table for a replay).                *)
(***************************************************************************)
\* records encoded into one buffer
MaxLogRecords == 2

CodecRecords ==
    {WALRecord_new(op, seq_no, <<107>>, val) :
        op \in {OpPut, OpDelete}, seq_no \in {0, 1}, val \in Vals}

CodecInit ==
    /\ db_state = "Closed"
    /\ mem_table = MemTable_new
    /\ next_seq_no = 0
    /\ opts \in {o \in DBConfigs : o.wal_sync_policy = "Always"}
    /\ wal_buf = <<>>
    /\ file = <<>>
    /\ synced = 0
    /\ wal_hist = <<>>
    /\ last = Call("init", <<>>, <<>>, "Ok", <<>>)
    /\ accepted = 0
    /\ view_at_drop = View(MemTable_new)
    /\ calls = 0
    /\ faults = 0

\* buf.extend(encode_record(rec))
Codec_encode(rec) ==
    /\ last.op \in {"init", "encode"}
    /\ Len(wal_hist) < MaxLogRecords
    /\ file' = file \o encode_record(rec)
    /\ wal_hist' = Append(wal_hist, HistEntry(rec, "Ok"))
    /\ last' = Call("encode", rec.key, rec.val, "Ok", <<>>)
    /\ UNCHANGED <<db_state, mem_table, next_seq_no, opts, wal_buf, synced, accepted,
                   view_at_drop, calls, faults>>

\* decode_record(buf, offset of the i-th record, max_record_len)
Codec_decode(i) ==
    /\ last.op = "encode"
    /\ LET d == decode_record(file, wal_hist[i].off, opts.max_record_len)
       IN  last' = Call("decode", <<>>, <<>>, d.kind, [at |-> i, d |-> d])
    /\ UNCHANGED <<db_state, mem_table, next_seq_no, opts, wal_buf, file, synced, wal_hist,
                   accepted, view_at_drop, calls, faults>>

\* the buffer cut to its first n bytes and replayed into a new MemTable
Codec_truncate(n) ==
    /\ last.op = "encode"
    /\ LET r == replay_into(Take(file, n), MemTable_new, opts.max_record_len)
       IN  /\ file' = Take(file, n)
           /\ mem_table' = r.mem
           /\ last' = Call("truncate", <<>>, <<>>, r.res, <<>>)
    /\ UNCHANGED <<db_state, next_seq_no, opts, wal_buf, synced, wal_hist, accepted,
                   view_at_drop, calls, faults>>

\* the one record of the buffer with bit b of the byte at offset at flipped
FlipBit(buf, at, b) == [buf EXCEPT ![at + 1] = Xor8(buf[at + 1], 2 ^ b)]

Codec_flip(at, b) ==
    /\ last.op = "encode"
    /\ Len(wal_hist) = 1
    /\ LET d == decode_record(FlipBit(file, at, b), 0, opts.max_record_len)
       IN  /\ file' = FlipBit(file, at, b)
           /\ last' = Call("flip", <<>>, <<>>, d.kind, [at |-> at, d |-> d])
    /\ UNCHANGED <<db_state, mem_table, next_seq_no, opts, wal_buf, synced, wal_hist,
                   accepted, view_at_drop, calls, faults>>

\* the len fields met by decode_record: zero, too short for a checksum, just a
\* checksum, the engine's frames, and one above each configured limit
LenFields == {0, 1, 3, 4, 5, 23, 24, DEFAULT_MAX_RECORD_LEN + 1}

\* decode_record(buf, offset of the last record, max_record_len) on a buffer
\* of one or two records, with the last record's len field set to len and the
\* buffer cut to its first n bytes
Codec_set_len(len, n) ==
    /\ last.op = "encode"
    /\ Len(wal_hist) <= 2
    /\ LET off == wal_hist[Len(wal_hist)].off
           buf == Take(Take(file, off) \o to_le_bytes(len, 4) \o Drop(file, off + 4), n)
           d == decode_record(buf, off, opts.max_record_len)
       IN  /\ file' = buf
           /\ last' = Call("set_len", <<>>, <<>>, d.kind, [at |-> off, len |-> len, d |-> d])
    /\ UNCHANGED <<db_state, mem_table, next_seq_no, opts, wal_buf, synced, wal_hist,
                   accepted, view_at_drop, calls, faults>>

\* a record body laid out as encode_record lays it out, with every field chosen
Body(op, seq_no, key_len, val_len, payload) ==
    <<op>> \o to_le_bytes(seq_no, 8) \o to_le_bytes(key_len, 4) \o to_le_bytes(val_len, 4)
        \o payload
\* bodies with each op byte, with key and value lengths that agree or not with
\* the payload, and bodies cut inside the fixed header
CraftedBodies ==
    {Body(op, seq_no, key_len, val_len, payload) :
        op \in {0, OpPut, OpDelete, 3}, seq_no \in {0, 1}, key_len \in 0..2, val_len \in 0..2,
        payload \in {<<>>, <<107>>, <<107, 1>>, <<107, 2, 3>>}}
    \cup {Take(Body(op, 0, 1, 1, <<107, 1>>), k) : op \in {0, OpPut}, k \in 0..(PayloadOffset - 1)}

\* decode_record at the end of the buffer, where a complete frame of body with
\* its checksum has been added
Codec_frame(body) ==
    /\ last.op \in {"init", "encode"}
    /\ Len(wal_hist) <= 1
    /\ LET buf == file \o to_le_bytes(Len(body) + 4, 4) \o body \o crc32_hash(body)
           d == decode_record(buf, Len(file), opts.max_record_len)
       IN  /\ file' = buf
           /\ last' = Call("frame", <<>>, <<>>, d.kind, [at |-> Len(file), body |-> body, d |-> d])
    /\ UNCHANGED <<db_state, mem_table, next_seq_no, opts, wal_buf, synced, wal_hist,
                   accepted, view_at_drop, calls, faults>>

CodecNext ==
    \/ \E rec \in CodecRecords : Codec_encode(rec)
    \/ \E i \in DOMAIN wal_hist : Codec_decode(i)
    \/ \E n \in 0..(Len(file) - 1) : Codec_truncate(n)
    \/ \E at \in 4..(Len(file) - 5), b \in 0..7 : Codec_flip(at, b)
    \/ \E len \in LenFields, n \in 0..Len(file) :
           /\ wal_hist # <<>> /\ n + 1 >= wal_hist[Len(wal_hist)].off
           /\ Codec_set_len(len, n)
    \/ \E body \in CraftedBodies : Codec_frame(body)

CodecSpec == CodecInit /\ [][CodecNext]_vars

\* the len field of rec's frame is within the configured limit
FitsMaxRecordLen(rec) == PayloadOffset + Len(rec.key) + Len(rec.val) + 4 <= opts.max_record_len
\* the records of hist applied in order to mem, as the replay applies them
RECURSIVE ApplyAll(_, _)
ApplyAll(hist, mem) ==
    IF hist = <<>> THEN mem ELSE ApplyAll(Tail(hist), replay_apply(mem, Head(hist).rec).mem)
\* the entries of the history whose whole frame lies in the first n bytes
Contained(hist, n) == SelectSeq(hist, LAMBDA h : h.off + encoded_len(h.rec) <= n)

MaxMemOps == 3
SeqNos == 0..2

MemOp(op, seq_no, key, val, res) ==
    [rec |-> WALRecord_new(op, seq_no, key, val), before |-> mem_table, res |-> res]

MemInit ==
    /\ db_state = "Ready"
    /\ mem_table = MemTable_new
    /\ next_seq_no = 0
    /\ opts \in {o \in DBConfigs : o.wal_sync_policy = "Never" /\ o.max_record_len = DEFAULT_MAX_RECORD_LEN}
    /\ wal_buf = <<>>
    /\ file = <<>>
    /\ synced = 0
    /\ wal_hist = <<>>
    /\ last = Call("init", <<>>, <<>>, "Ok", <<>>)
    /\ accepted = 0
    /\ view_at_drop = View(MemTable_new)
    /\ calls = 0
    /\ faults = 0

\* memtable::put(&mut mem, key, val, seq_no)
Mem_put(key, val, seq_no) ==
    /\ Len(wal_hist) < MaxMemOps
    /\ LET m == memtable_put(mem_table, key, val, seq_no)
       IN  /\ mem_table' = m.mem
           /\ wal_hist' = Append(wal_hist, MemOp(OpPut, seq_no, key, val, m.res))
           /\ last' = Call("put", key, val, m.res, <<seq_no>>)
    /\ UNCHANGED <<db_state, next_seq_no, opts, wal_buf, file, synced, accepted,
                   view_at_drop, calls, faults>>

\* mem.entry(key).or_insert(Entry::Tombstone { seq_no }), for a non-empty key
Mem_delete(key, seq_no) ==
    /\ Len(wal_hist) < MaxMemOps
    /\ Len(key) > 0
    /\ mem_table' = MemTable_or_insert(mem_table, key, Tombstone(seq_no))
    /\ wal_hist' = Append(wal_hist, MemOp(OpDelete, seq_no, key, <<>>, "Ok"))
    /\ last' = Call("delete", key, <<>>, "Ok", <<seq_no>>)
    /\ UNCHANGED <<db_state, next_seq_no, opts, wal_buf, file, synced, accepted,
                   view_at_drop, calls, faults>>

MemNext ==
    \/ \E key \in Keys, val \in Vals, seq_no \in SeqNos : Mem_put(key, val, seq_no)
    \/ \E key \in Keys, seq_no \in SeqNos : Mem_delete(key, seq_no)

MemSpec == MemInit /\ [][MemNext]_vars

\* the last two primitives were puts of the same non-empty key with different
\* sequence numbers; Earlier and Later are the one with the lower and the one
\* with the higher sequence number, whichever was applied first
TwoPuts ==
    /\ Len(wal_hist) >= 2
    /\ LET p == wal_hist[Len(wal_hist) - 1].rec
           q == wal_hist[Len(wal_hist)].rec
       IN  /\ p.op = OpPut /\ q.op = OpPut
           /\ p.key = q.key /\ Len(p.key) > 0
           /\ p.seq_no # q.seq_no
Later ==
    LET p == wal_hist[Len(wal_hist) - 1].rec
        q == wal_hist[Len(wal_hist)].rec
    IN  IF p.seq_no < q.seq_no THEN q ELSE p
\* the table the two puts were applied to
BeforeTwoPuts == wal_hist[Len(wal_hist) - 1].before

(***************************************************************************)
(* C13 as stated: two puts of one key with sequence numbers a < b, applied *)
(* in either order to any MemTable, leave Value{seq_no: b, val: b's value} *)
(* for the key.                                                            *)
(***************************************************************************)
C13_AnyMemTable ==
    TwoPuts => mem_table[Later.key] = Value(Later.seq_no, Later.val)

(***************************************************************************)
(* C13 amended: two puts of one key with sequence numbers a < b, applied   *)
(* in either order to a MemTable that holds no Entry for the key or one    *)
(* with a sequence number below b, leave Value{seq_no: b, val: b's value}. *)
(***************************************************************************)
C13_LastWriterBySeqNo ==
    (TwoPuts /\ (Later.key \in DOMAIN BeforeTwoPuts =>
                    Entry_seq_no(BeforeTwoPuts[Later.key]) < Later.seq_no)) =>
        mem_table[Later.key] = Value(Later.seq_no, Later.val)

\* the put with the higher sequence number came first, onto an older Entry
C13_Witness ==
    /\ TwoPuts
    /\ Later = wal_hist[Len(wal_hist) - 1].rec
    /\ Later.key \in DOMAIN BeforeTwoPuts
    /\ Entry_seq_no(BeforeTwoPuts[Later.key]) < Later.seq_no
    /\ mem_table[Later.key] = Value(Later.seq_no, Later.val)
    /\ Later.val # wal_hist[Len(wal_hist)].rec.val

(***************************************************************************)
(* C14  MemTable invariant: every key a primitive was applied to has one   *)
(* Entry, and the Entry carries the highest sequence number of the puts    *)
(* and deletes applied to the key.                                         *)
(***************************************************************************)
C14_EntryHasHighestSeqNo ==
    \A i \in DOMAIN wal_hist :
        LET h == wal_hist[i]
        IN  h.res = "Ok" =>
                /\ h.rec.key \in DOMAIN mem_table
                /\ Entry_seq_no(mem_table[h.rec.key]) >= h.rec.seq_no

(***************************************************************************)
(* C15 as stated: for a valid record r (op Put or Delete, non-empty key)   *)
(* whose key length and value length are within max_record_len,            *)
(* decode_record(encode_record(r), 0, max_record_len) succeeds and returns *)
(* r and the length of the encoding.                                       *)
(***************************************************************************)
C15_RoundTripLengthsWithinLimit ==
    (last.op = "decode" /\ Len(wal_hist) = 1) =>
        LET r == wal_hist[1].rec
        IN  (Len(r.key) <= opts.max_record_len /\ Len(r.val) <= opts.max_record_len) =>
                last.out.d = Success(r, Len(encode_record(r)))

(***************************************************************************)
(* C15 amended: for a valid record r whose frame is within the limit, that *)
(* is 17 + key length + value length + 4 <= max_record_len, decoding the   *)
(* encoding of r at the offset where it starts succeeds and returns r and  *)
(* the offset of the byte after it.                                        *)
(***************************************************************************)
C15_RoundTrip ==
    last.op = "decode" =>
        LET h == wal_hist[last.out.at]
        IN  FitsMaxRecordLen(h.rec) =>
                last.out.d = Success(h.rec, h.off + Len(encode_record(h.rec)))

\* a buffer that is one encoded record was decoded from offset 0
C15_Witness ==
    /\ last.op = "decode"
    /\ Len(wal_hist) = 1
    /\ FitsMaxRecordLen(wal_hist[1].rec)
    /\ last.res = "Ok"
    /\ last.out.d.rec = wal_hist[1].rec
    /\ last.out.d.next = Len(file)

(***************************************************************************)
(* C16  Corruption detection: an encoded record with one bit of its body   *)
(* flipped decodes as Corruption, never as a record.                       *)
(***************************************************************************)
C16_BitFlipIsCorruption ==
    last.op = "flip" => last.res = "Corruption"

\* a bit of the value was flipped and the checksum comparison caught it
C16_Witness ==
    /\ last.op = "flip"
    /\ FitsMaxRecordLen(wal_hist[1].rec)
    /\ last.out.at >= 4 + PayloadOffset + Len(wal_hist[1].rec.key)
    /\ last.out.d = Corruption("crc mismatch")

(***************************************************************************)
(* What C17 and C18 read of the engine's history.                          *)
(***************************************************************************)
\* a crash cut the i-th record of the history short
Torn(i) == wal_hist[i].crash /\ HistEnd(i) - wal_hist[i].off < encoded_len(wal_hist[i].rec)
\* every record of the history has a non-empty key and a frame within the limit
OnlyReplayableRecords ==
    \A i \in DOMAIN wal_hist :
        Len(wal_hist[i].rec.key) > 0 /\ FitsMaxRecordLen(wal_hist[i].rec)

(***************************************************************************)
(* C17  Recovery after a torn append stays recoverable: when a crash has   *)
(* left a cut record at the end of the log and puts were accepted after    *)
(* the reopening, the next DB::new succeeds and replays the records before *)
(* the torn one and the puts accepted after it.                            *)
(***************************************************************************)
C17_TornTailStaysRecoverable ==
    (/\ last.op = "new"
     /\ OnlyReplayableRecords
     /\ \E i \in DOMAIN wal_hist : Torn(i) /\ i < Len(wal_hist)) =>
        /\ last.res = "Ok"
        /\ \A j \in DOMAIN wal_hist :
               (wal_hist[j].app = "Ok" /\ InFile(j)) => IsReplayed(wal_hist[j])

(***************************************************************************)
(* C18  A log written by the engine's own calls, with no crash and no I/O  *)
(* failure, always replays: DB::new on it succeeds.                        *)
(***************************************************************************)
C18_OwnLogReplays ==
    (last.op = "new" /\ faults = 0) => last.res = "Ok"

(***************************************************************************)
(* C19  Delete is insert-if-absent: delete of a non-empty key returns Ok   *)
(* and advances next_seq_no by one; it inserts Tombstone{next_seq_no} when *)
(* the MemTable has no Entry for the key and leaves the MemTable as it is  *)
(* when it has one, so a value put before the delete is still returned.    *)
(***************************************************************************)
C19_DeleteStep ==
    (IsCall /\ last'.op = "delete" /\ Len(last'.key) > 0) =>
        /\ last'.res = "Ok"
        /\ next_seq_no' = next_seq_no + 1
        /\ IF last'.key \in DOMAIN mem_table
           THEN mem_table' = mem_table
           ELSE mem_table' = MemTable_insert(mem_table, last'.key, Tombstone(next_seq_no))
        /\ get_raw(mem_table', last'.key) = get_raw(mem_table, last'.key)

C20_CallStep ==
    /\ (IsCall /\ last'.op = "delete" /\ last'.res = "Ok"
            /\ last'.key \notin DOMAIN mem_table) =>
           /\ mem_table'[last'.key] = Tombstone(next_seq_no)
           /\ get_raw(mem_table', last'.key) = <<>>
    /\ (IsCall /\ last'.op = "put" /\ last'.res = "Ok" /\ last'.key \in DOMAIN mem_table) =>
           (mem_table[last'.key].tag = "Tombstone" =>
               /\ Entry_seq_no(mem_table[last'.key]) < next_seq_no
               /\ mem_table'[last'.key] = Value(next_seq_no, last'.val)
               /\ get_raw(mem_table', last'.key) = <<last'.val>>)

OnlyPutRecords ==
    /\ wal_hist # <<>>
    /\ \A i \in DOMAIN wal_hist :
           wal_hist[i].rec.op = OpPut /\ Len(wal_hist[i].rec.key) > 0
PutRecords == {wal_hist[i].rec : i \in DOMAIN wal_hist}
\* the MemTable after memtable::put of the records of recs, in order, on mem
RECURSIVE MemAfter(_, _)
MemAfter(recs, mem) ==
    IF recs = <<>> THEN mem
    ELSE MemAfter(Tail(recs),
                  memtable_put(mem, Head(recs).key, Head(recs).val, Head(recs).seq_no).mem)
\* the same collection of records in any order, each any number of times
Rearrangements ==
    {t \in UNION {[1..n -> PutRecords] : n \in 1..MaxMemOps} :
        {t[i] : i \in DOMAIN t} = PutRecords}
\* no two records of one key carry the same sequence number and different values
NoTies ==
    \A p \in PutRecords, q \in PutRecords :
        (p.key = q.key /\ p.seq_no = q.seq_no) => p.val = q.val
\* the record of the highest sequence number among those of key
Highest(key) ==
    CHOOSE p \in PutRecords :
        /\ p.key = key
        /\ \A q \in PutRecords : q.key = key => q.seq_no <= p.seq_no

(***************************************************************************)
(* C21 as stated: a collection of Put records applied to an empty MemTable *)
(* in any order, each any number of times, gives the same MemTable, also   *)
(* when records carry the same sequence number.                            *)
(***************************************************************************)
C21_AnyOrderSameTable ==
    OnlyPutRecords => \A t \in Rearrangements : MemAfter(t, MemTable_new) = mem_table

(***************************************************************************)
(* C21 amended: when no two records of one key carry the same sequence     *)
(* number with different values, the MemTable is a function of the set of  *)
(* records applied: it holds, for each key, the value of the record with   *)
(* the highest sequence number, whatever the order and the repetitions.    *)
(***************************************************************************)
C21_ReplayOrderIndependent ==
    (OnlyPutRecords /\ NoTies) =>
        /\ DOMAIN mem_table = {p.key : p \in PutRecords}
        /\ \A key \in DOMAIN mem_table :
               mem_table[key] = Value(Highest(key).seq_no, Highest(key).val)

\* a record, an older record of the same key, and the first record again
C21_Witness ==
    /\ OnlyPutRecords /\ NoTies
    /\ Len(wal_hist) = 3
    /\ wal_hist[3].rec = wal_hist[1].rec
    /\ wal_hist[2].rec.key = wal_hist[1].rec.key
    /\ wal_hist[2].rec.seq_no < wal_hist[1].rec.seq_no
    /\ wal_hist[2].rec.val # wal_hist[1].rec.val
    /\ mem_table[wal_hist[1].rec.key] = Value(wal_hist[1].rec.seq_no, wal_hist[1].rec.val)

\* the encoded records of the history one after the other, in append order
RECURSIVE Frames(_)
Frames(hist) ==
    IF hist = <<>> THEN <<>>
    ELSE encode_record(Head(hist).rec) \o Frames(Tail(hist))
\* a crash has happened since the log was created and left bytes of a record
AfterCrash == \E i \in DOMAIN wal_hist : wal_hist[i].crash

(***************************************************************************)
(* C22  Prefix consistency after a crash: under either sync policy and     *)
(* wherever the crash cut the log, the bytes of the log file are a prefix  *)
(* of the concatenation of the encoded records in append order, and the    *)
(* records a replay of the file recovers are the first records appended,   *)
(* in order.  Read on logs whose records all have a non-empty key and a   *)
(* frame within max_record_len.                                            *)
(***************************************************************************)
C22_PrefixConsistency ==
    (AfterCrash /\ OnlyReplayableRecords) =>
        /\ Len(file) <= Len(Frames(wal_hist))
        /\ file = Take(Frames(wal_hist), Len(file))
        /\ \A j \in DOMAIN Replayed :
               j <= Len(wal_hist) /\ Replayed[j].rec = wal_hist[j].rec

(***************************************************************************)
(* C23  decode_record tells a clean end of stream from corruption in this  *)
(* order: fewer than 4 bytes remaining at offset is CleanEOF; otherwise a  *)
(* len field of 0 or above max_record_len is Corruption however many bytes *)
(* remain; otherwise fewer than len bytes after the len field is CleanEOF. *)
(* CleanEOF is returned in no other case, and a Success carries the next   *)
(* offset, offset + 4 + len.                                               *)
(***************************************************************************)
C23_CleanEofPrecedence ==
    last.op = "set_len" =>
        LET d == last.out.d
            offset == last.out.at
            len == last.out.len
            remaining == IF Len(file) > offset THEN Len(file) - offset ELSE 0
            short == remaining < 4
            invalid == len = 0 \/ len > opts.max_record_len
            cut == remaining - 4 < len
        IN  /\ short => d = CleanEOF
            /\ (~short /\ invalid) => d.kind = "Corruption"
            /\ (~short /\ ~invalid /\ cut) => d = CleanEOF
            /\ d = CleanEOF => (short \/ (~invalid /\ cut))
            /\ d.kind = "Ok" => d.next = offset + 4 + len

\* a len field above the limit with fewer bytes behind it than it announces
C23_Witness ==
    /\ last.op = "set_len"
    /\ last.out.at > 0
    /\ Len(file) - last.out.at >= 4
    /\ last.out.len > opts.max_record_len
    /\ Len(file) - last.out.at - 4 < last.out.len
    /\ last.out.d = Corruption("invalid len")

(***************************************************************************)
(* C24  A complete record whose CRC matches its body is reported as        *)
(* Corruption, never as Success, when its op byte is neither 1 (Put) nor 2 *)
(* (Delete), when its key length is 0, when its body is shorter than the   *)
(* 17-byte fixed header, or when 17 + key_len + val_len is not the size of *)
(* the body.                                                               *)
(***************************************************************************)
C24_MalformedBodyIsCorruption ==
    last.op = "frame" =>
        LET body == last.out.body
        IN  \/ last.res = "Corruption"
            \/ /\ Len(body) >= 17
               /\ body[1] \in {1, 2}
               /\ read_u32_le(Drop(body, 9))[1] # 0
               /\ 17 + read_u32_le(Drop(body, 9))[1] + read_u32_le(Drop(body, 13))[1] = Len(body)

\* a frame behind a whole record, within the limit, whose body is well formed
\* but for its op byte
C24_Witness ==
    /\ last.op = "frame"
    /\ last.out.at > 0
    /\ Len(last.out.body) + 4 <= opts.max_record_len
    /\ last.out.body = Body(3, 1, 1, 1, <<107, 1>>)
    /\ last.out.d = Corruption("invalid op code found")

=============================================================================
